---------------------------- MODULE Spec2Model ----------------------------
(***************************************************************************)
(* Model of the Monte Carlo FX TARF engine of ql/experimental/fx/fxtarf.hpp *)
(* (McFxTarfEngine, its QuadraticProxyFunction and MakeMcFxTarfEngine).     *)
(*                                                                         *)
(* Number representation.  Spots of observations lie on an integer grid.   *)
(* The relative cutoff is a fixed point number with denominator RelScale,  *)
(* so a cutoff is a rational number; every Real that reaches a proxy       *)
(* function (cutoff, lowerCutoff, core region, the constant c, a query     *)
(* spot, a returned value) is a rational <<num, den>> with den > 0.        *)
(* Regression coefficients a and b are integers.                           *)
(***************************************************************************)
EXTENDS Integers, Sequences, FiniteSets, TLC

VARIABLES
    \* ---- McFxTarfEngine -------------------------------------------------
    generateProxy_,     \* constructor argument generateProxy
    arguments_,         \* FxTarf::arguments read by calculate()
    results_,           \* FxTarf::results: value and proxy
    fixingTimes_,       \* one entry per open fixing date pushed by calculate()
    discounts_,         \* one entry per open fixing date pushed by calculate()
    accBucketLimits_,   \* bucket limits, each multiplied by nAccBuckets
    data_,              \* data_[fixing][bucket] = sequence of <<spot, npv>>
    proxy_,             \* Null or the proxy description being built
    pc,                 \* position of the engine: idle, regress, crashed
    fix,                \* loop variable i of the regression loop (1-based)
    k0,                 \* loop variable k0 (buckets consumed so far)
    k0Before,           \* loop variable k0Before
    groups,             \* per fixing index, the merged groups built so far
    thrown,             \* the exception that ended the last calculate(), or NoError
    \* ---- a QuadraticProxyFunction used on its own ------------------------
    pf,                 \* Null or the constructed function object
    pfError,            \* NoError or the constructor's error
    pfSpot,             \* last query spot, or NoReal
    pfValue,            \* value returned for pfSpot, or NoReal
    \* ---- MakeMcFxTarfEngine ----------------------------------------------
    steps_,             \* NullSize or the number of steps
    stepsPerYear_,      \* NullSize or the number of steps per year
    samples_,           \* NullSize or the number of samples
    tolerance_,         \* NullReal or the absolute tolerance
    discount_,          \* the discount curve handle: "empty" or "curve"
    makeProxy_,         \* generateProxy_ of the factory
    allowsErrorEstimate,\* RNG::allowsErrorEstimate
    called,             \* the named parameters given without error so far
    makeError,          \* NoError or the error of the last factory call
    engine              \* Null or the engine the conversion produced

engineVars == <<generateProxy_, arguments_, results_, fixingTimes_, discounts_,
                accBucketLimits_, data_, proxy_, pc, fix, k0, k0Before, groups,
                thrown>>
proxyVars == <<pf, pfError, pfSpot, pfValue>>
makerVars == <<steps_, stepsPerYear_, samples_, tolerance_, discount_,
               makeProxy_, allowsErrorEstimate, called, makeError, engine>>
vars == <<engineVars, proxyVars, makerVars>>

Call == "Call"
Put == "Put"
\* the absent object, the absent number, the absent function identity
Null == [null |-> TRUE]
NoReal == <<>>
NoId == <<>>
NoError == [what |-> "none"]

----------------------------------------------------------------------------
(* Rational arithmetic: <<num, den>> with den > 0.                          *)

Abs(n) == IF n < 0 THEN -n ELSE n
R(n) == <<n, 1>>
\* comparisons: over a common denominator the numerators decide
RLeq(p, q) == IF p[2] = q[2] THEN p[1] <= q[1] ELSE p[1] * q[2] <= q[1] * p[2]
RLess(p, q) == IF p[2] = q[2] THEN p[1] < q[1] ELSE p[1] * q[2] < q[1] * p[2]
REq(p, q) == IF p[2] = q[2] THEN p[1] = q[1] ELSE p[1] * q[2] = q[1] * p[2]
RAdd(p, q) == <<p[1] * q[2] + q[1] * p[2], p[2] * q[2]>>
RSub(p, q) == <<p[1] * q[2] - q[1] * p[2], p[2] * q[2]>>
RMul(p, q) == <<p[1] * q[1], p[2] * q[2]>>
RScale(k, p) == <<k * p[1], p[2]>>
RMin(p, q) == IF RLess(q, p) THEN q ELSE p
RMax(p, q) == IF RLess(p, q) THEN q ELSE p
\* n / d for integers n and d # 0
RDiv(n, d) == IF d < 0 THEN <<-n, -d>> ELSE <<n, d>>

----------------------------------------------------------------------------
(* QuadraticProxyFunction                                                  *)

\* close(a, 0.0): for an integer coefficient, only 0 itself is close to 0
Close(a, z) == a = z

\* The constructor.  garbage holds the indeterminate content of the members
\* flatExtrapolationType1_/2_ and extrapolationPoint1_/2_, which the
\* constructor leaves unassigned for a segment whose a is close to 0.
QuadraticProxyFunction(type, cutoff, a1, b1, c1, a2, b2, c2, lowerCutoff, coreRegionMin, coreRegionMax, garbage) ==
    IF ~((type = Call /\ RLeq(lowerCutoff, cutoff)) \/
         (type = Put /\ RLeq(cutoff, lowerCutoff)))
    THEN [ok |-> FALSE, error |-> [what |-> "lowerCutoff must be less or equal (call) or greater equal (put) than cutoff"]]
    ELSE IF Close(a1, 0) /\ ~(b1 > 0)
    THEN [ok |-> FALSE, error |-> [what |-> "for a call and a1=0 b must be positive"]]
    ELSE IF Close(a2, 0) /\ ~(b2 > 0)
    THEN [ok |-> FALSE, error |-> [what |-> "for a call and a2=0 b must be positive"]]
    ELSE [ok |-> TRUE,
          fn |-> [type |-> type, cutoff |-> cutoff,
                  a1 |-> a1, b1 |-> b1, c1 |-> c1,
                  a2 |-> a2, b2 |-> b2, c2 |-> c2,
                  lowerCutoff |-> lowerCutoff,
                  coreRegionMin |-> coreRegionMin,
                  coreRegionMax |-> coreRegionMax,
                  extrapolationPoint1 |->
                      IF Close(a1, 0) THEN garbage.point1
                      ELSE RDiv(-b1, 2 * a1),
                  flatExtrapolationType1 |->
                      IF Close(a1, 0) THEN garbage.type1
                      ELSE (IF type = Call THEN 1 ELSE -1) *
                           (IF a1 > 0 THEN -1 ELSE 1),
                  extrapolationPoint2 |->
                      IF Close(a2, 0) THEN garbage.point2
                      ELSE RDiv(-b2, 2 * a2),
                  flatExtrapolationType2 |->
                      IF Close(a2, 0) THEN garbage.type2
                      ELSE (IF type = Call THEN 1 ELSE -1) *
                           (IF a2 > 0 THEN -1 ELSE 1)]]

\* a*x*x + b*x + c
Poly(a, b, c, x) == RAdd(RAdd(RScale(a, RMul(x, x)), RScale(b, x)), c)

\* a clamp to the other side of the point
FlatClampBeyond(t, point, x) == RScale(t, RMax(RScale(t, point), RScale(t, x)))

\* t * std::min(t * point, t * x)
FlatClamp(t, point, x) == RScale(t, RMin(RScale(t, point), RScale(t, x)))

\* (2.0 * a * L + b) * spot + c - a * L * L
LinearExtrapolation(a, b, c, L, spot) ==
    RSub(RAdd(RMul(RAdd(RScale(2 * a, L), R(b)), spot), c),
         RScale(a, RMul(L, L)))

\* a choice of segment that puts the cutoff itself into the upper one
SegmentAbove(f, spot) == IF RLess(spot, f.cutoff) THEN 1 ELSE 2

\* operator()(spot), "if (spot <= cutoff_)": the segment (1 or 2) that answers
Segment(f, spot) == IF RLeq(spot, f.cutoff) THEN 1 ELSE 2

\* operator()(spot)
Evaluate(f, spot) ==
    IF Segment(f, spot) = 1
    THEN IF RLeq(spot, f.lowerCutoff) /\ f.type = Call /\
            f.flatExtrapolationType1 = 1
         THEN LinearExtrapolation(f.a1, f.b1, f.c1, f.lowerCutoff, spot)
         ELSE LET x == FlatClamp(f.flatExtrapolationType1,
                                 f.extrapolationPoint1, spot)
                  tmp == Poly(f.a1, f.b1, f.c1, x)
              IN IF f.type = Put
                 THEN LET ct == FlatClamp(f.flatExtrapolationType2,
                                          f.extrapolationPoint2, f.cutoff)
                      IN RMax(Poly(f.a2, f.b2, f.c2, ct), tmp)
                 ELSE tmp
    ELSE IF RLeq(f.lowerCutoff, spot) /\ f.type = Put /\
            f.flatExtrapolationType2 = -1
         THEN LinearExtrapolation(f.a2, f.b2, f.c2, f.lowerCutoff, spot)
         ELSE LET x == FlatClamp(f.flatExtrapolationType2,
                                 f.extrapolationPoint2, spot)
                  tmp == Poly(f.a2, f.b2, f.c2, x)
              IN IF f.type = Call
                 THEN LET ct == FlatClamp(f.flatExtrapolationType1,
                                          f.extrapolationPoint1, f.cutoff)
                      IN RMax(Poly(f.a1, f.b1, f.c1, ct), tmp)
                 ELSE tmp

----------------------------------------------------------------------------
(* Bounds of the model and the inputs drawn from them                      *)

MaxBucketSize == 6      \* observations per bucket: 0..MaxBucketSize
MaxFixings == 2         \* open fixing dates: 0..MaxFixings
MaxAmount == 2          \* accumulated amount and target: 0..MaxAmount
MaxCoef == 1            \* constructor coefficients a: -MaxCoef..MaxCoef
MaxSpot == 3            \* spots used with a function on its own: 0..MaxSpot
MaxSize == 2            \* step counts, sample counts and tolerances given to the factory

\* program constants of calculate()
nAccBuckets == 5
dFactor == 10
minRegPoints == 3
\* fixed point denominator of the relative cutoff
RelScale == 1000 * 1000
\* relCutoff = 0.80, minCutoffRatio = 0.33, cutoffShrinkFactor = 0.99,
\* minLowerExtr = 0.05 and coreCutoff = 0.01, each in hundredths
relCutoff == 80
minCutoffRatio == 33
cutoffShrinkFactor == 99
minLowerExtr == 5
coreCutoff == 1
\* QL_EPSILON on the integer spot grid: two spots are closer than QL_EPSILON
\* exactly when they are equal
QL_EPSILON == 1
\* QL_MAX_REAL and QL_MIN_REAL (= -QL_MAX_REAL): beyond every spot of the model
QL_MAX_REAL == 100 + MaxBucketSize
QL_MIN_REAL == -QL_MAX_REAL

\* An observation is <<spot, npv>>.  A bucket of n observations of one shape:
\* spread = 1 puts them on the spots 0..n-1, spread = 0 puts all at spot 0;
\* the last one carries the payoff npv, the others payoff 0.
Spread == [spread |-> 1, npv |-> 1]
OneSpot == [spread |-> 0, npv |-> 1]
BucketData(n, shape) ==
    [j \in 1..n |-> <<shape.spread * (j - 1), IF j = n THEN shape.npv ELSE 0>>]
FixingData(sizes, shape) ==
    [b \in 1..nAccBuckets |-> BucketData(sizes[b], shape)]

\* bucket sizes: fewer than minRegPoints observations, too few for two
\* segments of minRegPoints points, enough for two segments
TooFewSize == 2 * minRegPoints - 2
BucketSizes == (0..(minRegPoints - 1)) \cup {TooFewSize, MaxBucketSize}

\* every vector of these bucket sizes, for one fixing index
RichData(n) ==
    IF n # 1 THEN {}
    ELSE {<<FixingData(sizes, Spread)>> : sizes \in [1..nAccBuckets -> BucketSizes]}

\* the smallest bucket in which more than minRegPoints observations lie
\* beyond the position xTmp.size() * (1.0 - minLowerExtr), and such a bucket
\* with all observations on spot 0 but the last minRegPoints, which are on
\* spot 1 and carry the payoff
LowHeavySize == (100 * minRegPoints) \div minLowerExtr + 1
LowHeavyBucket ==
    [j \in 1..LowHeavySize |->
        IF j <= LowHeavySize - minRegPoints THEN <<0, 0>> ELSE <<1, 1>>]

\* minRegPoints observations below the first cutoff of a call, then
\* observations with a positive npv exactly on it and one above it: spots
\* 0..TieTop with the cutoff spotMin + relCutoff * (spotMax - spotMin) on
\* the spot TieSpot
TieTop == 100 \div (100 - relCutoff)
TieSpot == (relCutoff * TieTop) \div 100
TieBucket ==
    [j \in 1..(2 * minRegPoints) |->
        IF j <= minRegPoints THEN <<j - 1, 0>>
        ELSE IF j < 2 * minRegPoints THEN <<TieSpot, 1>>
        ELSE <<TieTop, 1>>]

\* a few data sets of one fixing index: every bucket full, every bucket with
\* TooFewSize observations, a sparse first bucket, every bucket full
\* with all observations on one spot, no observation at all, every bucket
\* with nearly all observations on the lowest spot, every bucket with
\* observations on the cutoff
TemplateFixings ==
    { FixingData([b \in 1..nAccBuckets |-> MaxBucketSize], Spread),
      FixingData([b \in 1..nAccBuckets |-> 0], Spread),
      FixingData([b \in 1..nAccBuckets |-> TooFewSize], Spread),
      FixingData([b \in 1..nAccBuckets |-> IF b = 1 THEN 1 ELSE MaxBucketSize],
                 Spread),
      FixingData([b \in 1..nAccBuckets |-> MaxBucketSize], OneSpot),
      [b \in 1..nAccBuckets |-> LowHeavyBucket],
      [b \in 1..nAccBuckets |-> TieBucket] }
TemplateData(n) == [1..n -> TemplateFixings]

\* results of the least squares fit of one segment (a, b, c)
RegressionFits ==
    { [a |-> 1, b |-> 0, c |-> R(0)],
      [a |-> 0, b |-> -1, c |-> R(0)] }

\* indeterminate contents of the members the constructor may leave unassigned
GarbageTypes == {-1, 0, 1}
GarbagePoints == {R(0), R(1)}
Garbage == [type1 : GarbageTypes, point1 : GarbagePoints,
            type2 : GarbageTypes, point2 : GarbagePoints]
\* the members of a segment whose a is not close to 0 are assigned; a
\* constructor that throws leaves no object behind
Assigned == [type1 |-> 0, point1 |-> R(1), type2 |-> 0, point2 |-> R(1)]
GarbageFor(a1, b1, a2, b2) ==
    IF (Close(a1, 0) /\ ~(b1 > 0)) \/ (Close(a2, 0) /\ ~(b2 > 0))
    THEN {Assigned}
    ELSE { g \in Garbage :
             /\ ~Close(a1, 0) => (g.type1 = 0 /\ g.point1 = R(1))
             /\ ~Close(a2, 0) => (g.type2 = 0 /\ g.point2 = R(1)) }

ArgumentSet ==
    { a \in [openFixingDates : 0..MaxFixings, target : 0..MaxAmount,
             accumulatedAmount : 0..MaxAmount, longPositionType : {Call, Put}] :
        a.target > a.accumulatedAmount }

----------------------------------------------------------------------------
(* McFxTarfEngine::calculate(): the pieces                                 *)

\* a limit that leaves the accumulated amount out
BucketLimitOfTarget(i, target, accumulatedAmount) == i * target

\* bucket limit i (0-based) times nAccBuckets:
\* i / nAccBuckets * (target - accumulatedAmount) + accumulatedAmount
BucketLimit(i, target, accumulatedAmount) ==
    i * (target - accumulatedAmount) + nAccBuckets * accumulatedAmount

\* the limits as pushed, the first one left as computed
PushBucketLimitsAsComputed(limits, target, accumulatedAmount) ==
    limits \o [i \in 1..nAccBuckets |->
                 BucketLimit(i - 1, target, accumulatedAmount)]

\* the limits pushed onto accBucketLimits_, then accBucketLimits_[0] = 0.0
PushBucketLimits(limits, target, accumulatedAmount) ==
    LET pushed == limits \o [i \in 1..nAccBuckets |->
                               BucketLimit(i - 1, target, accumulatedAmount)]
    IN [pushed EXCEPT ![1] = 0]

\* operator< of std::pair<Real, Real>
PairLess(p, q) == p[1] < q[1] \/ (p[1] = q[1] /\ p[2] < q[2])

\* a merge that keeps one range only
MergeKeepingOne(s, t) == IF s = <<>> THEN t ELSE s

\* std::merge of two ranges
RECURSIVE Merge(_, _)
Merge(s, t) ==
    IF s = <<>> THEN t
    ELSE IF t = <<>> THEN s
    ELSE IF PairLess(Head(t), Head(s))
         THEN <<Head(t)>> \o Merge(s, Tail(t))
         ELSE <<Head(s)>> \o Merge(Tail(s), t)

\* number of observations in the buckets k+1..Len(tmp) (0-based: k..size-1)
RECURSIVE PointsFrom(_, _)
PointsFrom(tmp, k) ==
    IF k >= Len(tmp) THEN 0 ELSE Len(tmp[k + 1]) + PointsFrom(tmp, k + 1)

\* one bucket merged into the running group, spotMin and spotMax updated
\* a bucket joined at the end of the group instead of merged into it
MergeBucketAppended(g, bucket) ==
    [g EXCEPT !.xTmp = g.xTmp \o bucket,
              !.spotMin = IF Len(bucket) > 0 /\ bucket[1][1] < g.spotMin
                          THEN bucket[1][1] ELSE g.spotMin,
              !.spotMax = IF Len(bucket) > 0 /\ bucket[Len(bucket)][1] > g.spotMax
                          THEN bucket[Len(bucket)][1] ELSE g.spotMax]

MergeBucket(g, bucket) ==
    [g EXCEPT !.xTmp = Merge(g.xTmp, bucket),
              !.spotMin = IF Len(bucket) > 0 /\ bucket[1][1] < g.spotMin
                          THEN bucket[1][1] ELSE g.spotMin,
              !.spotMax = IF Len(bucket) > 0 /\ bucket[Len(bucket)][1] > g.spotMax
                          THEN bucket[Len(bucket)][1] ELSE g.spotMax]

\* the inner do-while: merge tmp[k0], k0++, while dFactor * size < total.
\* outOfRange: tmp[k0] was read with k0 >= tmp.size()
RECURSIVE MergeUntilDense(_, _, _)
MergeUntilDense(tmp, g, numberOfDataPoints) ==
    IF g.k0 >= Len(tmp) THEN [g EXCEPT !.outOfRange = TRUE]
    ELSE LET h == [MergeBucket(g, tmp[g.k0 + 1]) EXCEPT !.k0 = g.k0 + 1]
         IN IF dFactor * Len(h.xTmp) < numberOfDataPoints
            THEN MergeUntilDense(tmp, h, numberOfDataPoints)
            ELSE h

\* the buckets j..size-1 merged into the group
RECURSIVE MergeRest(_, _, _)
MergeRest(tmp, g, j) ==
    IF j >= Len(tmp) THEN g
    ELSE MergeRest(tmp, MergeBucket(g, tmp[j + 1]), j + 1)

\* the rest of the data never joined
JoinRestNever(tmp, g, numberOfDataPoints) == g

\* the rest of the data always joined
JoinRestAlways(tmp, g, numberOfDataPoints) ==
    [MergeRest(tmp, g, g.k0) EXCEPT !.k0 = Len(tmp)]

\* "... and join the rest of data if they are to few"
JoinRest(tmp, g, numberOfDataPoints) ==
    IF dFactor * PointsFrom(tmp, g.k0) < numberOfDataPoints
    THEN [MergeRest(tmp, g, g.k0) EXCEPT !.k0 = Len(tmp)]
    ELSE g

\* one merged group, from bucket k0 on
MergedGroup(tmp, k, numberOfDataPoints) ==
    LET start == [xTmp |-> <<>>, spotMin |-> QL_MAX_REAL,
                  spotMax |-> QL_MIN_REAL, k0 |-> k, outOfRange |-> FALSE]
        dense == MergeUntilDense(tmp, start, numberOfDataPoints)
    IN IF dense.outOfRange THEN dense
       ELSE JoinRest(tmp, dense, numberOfDataPoints)

\* spotMin + relCutoffTmp * (spotMax - spotMin), times RelScale
Cutoff(spotMin, spotMax, relCutoffTmp) ==
    spotMin * RelScale + relCutoffTmp * (spotMax - spotMin)

\* std::make_pair(cutoff, 0.0) < obs
CutoffPairLess(cutoff, obs) ==
    cutoff < obs[1] * RelScale \/ (cutoff = obs[1] * RelScale /\ 0 < obs[2])

\* std::upper_bound(xTmp.begin(), xTmp.end(), make_pair(cutoff, 0.0)) - begin
RECURSIVE UpperBoundSearch(_, _, _, _)
UpperBoundSearch(xTmp, cutoff, first, len) ==
    IF len <= 0 THEN first
    ELSE LET half == len \div 2
             mid == first + half
         IN IF CutoffPairLess(cutoff, xTmp[mid + 1])
            THEN UpperBoundSearch(xTmp, cutoff, first, half)
            ELSE UpperBoundSearch(xTmp, cutoff, mid + 1, len - half - 1)
UpperBound(xTmp, cutoff) == UpperBoundSearch(xTmp, cutoff, 0, Len(xTmp))

\* (1.0 - relCutoffTmp) * minCutoffRatio * size, truncated, + 1
MinDataSegment(relCutoffTmp, size) ==
    ((RelScale - relCutoffTmp) * minCutoffRatio * size) \div (RelScale * 100) + 1

\* relCutoffTmp *= cutoffShrinkFactor (call), /= min(cutoffShrinkFactor, 1.0) (put)
ShrinkRel(isCall, relCutoffTmp) ==
    IF isCall THEN (relCutoffTmp * cutoffShrinkFactor) \div 100
    ELSE (relCutoffTmp * 100) \div cutoffShrinkFactor

\* a loop that never lowers the cutoff
MayShrinkNever(isCall, relCutoffTmp) == FALSE

\* (isCall && relCutoffTmp > 0.5) || (!isCall && relCutoffTmp < 0.5)
MayShrink(isCall, relCutoffTmp) ==
    (isCall /\ 2 * relCutoffTmp > RelScale) \/
    (~isCall /\ 2 * relCutoffTmp < RelScale)

\* a test that asks for one of the two minima only
TooFewCriticalBoth(criticalSize, minDataSegment) ==
    criticalSize < minDataSegment /\ criticalSize < minRegPoints

TooFewCritical(criticalSize, minDataSegment) ==
    criticalSize < minDataSegment \/ criticalSize < minRegPoints

\* the do-while that lowers the cutoff; s holds relCutoffTmp, cutoff, sizeA,
\* sizeB, the number of passes made and, pass by pass, what the pass found
\* (rel, at: relCutoffTmp and cutoff on entry) and whether it shrank
RECURSIVE ShrinkLoop(_, _, _, _)
ShrinkLoop(g, isCall, minDataSegment, s) ==
    LET sizeA == UpperBound(g.xTmp, s.cutoff)
        sizeB == Len(g.xTmp) - sizeA
        criticalSize == IF isCall THEN sizeB ELSE sizeA
        shrink == MayShrink(isCall, s.relCutoffTmp) /\
                  TooFewCritical(criticalSize, minDataSegment)
        rel == IF shrink THEN ShrinkRel(isCall, s.relCutoffTmp)
               ELSE s.relCutoffTmp
        t == [relCutoffTmp |-> rel,
              cutoff |-> IF shrink THEN Cutoff(g.spotMin, g.spotMax, rel)
                         ELSE s.cutoff,
              sizeA |-> sizeA, sizeB |-> sizeB, passes |-> s.passes + 1,
              trace |-> Append(s.trace,
                               [rel |-> s.relCutoffTmp, at |-> s.cutoff,
                                criticalSize |-> criticalSize,
                                shrunk |-> shrink])]
    IN IF MayShrink(isCall, rel) /\ TooFewCritical(criticalSize, minDataSegment)
       THEN ShrinkLoop(g, isCall, minDataSegment, t)
       ELSE t

\* the two segments of the group at the (final) cutoff
SegmentSplit(g, isCall) ==
    LET rel0 == IF isCall THEN (relCutoff * RelScale) \div 100
                ELSE RelScale - (relCutoff * RelScale) \div 100
    IN ShrinkLoop(g, isCall, MinDataSegment(rel0, Len(g.xTmp)),
                  [relCutoffTmp |-> rel0,
                   cutoff |-> Cutoff(g.spotMin, g.spotMax, rel0),
                   sizeA |-> 0, sizeB |-> 0, passes |-> 0, trace |-> <<>>])

\* "copy the data to the final vectors used for the regression"
BelowCutoff(xTmp, cutoff) ==
    SelectSeq(xTmp, LAMBDA o : o[1] * RelScale <= cutoff)
AboveCutoff(xTmp, cutoff) ==
    SelectSeq(xTmp, LAMBDA o : ~(o[1] * RelScale <= cutoff))

\* positions read for lowerCutoff, coreRegionMin and coreRegionMax
LowerCutoffIndex(size, isCall) ==
    (size * (IF isCall THEN minLowerExtr ELSE 100 - minLowerExtr)) \div 100
CoreMinIndex(size) == (size * coreCutoff) \div 100
CoreMaxIndex(size) == (size * (100 - coreCutoff)) \div 100

RECURSIVE SumNpv(_)
SumNpv(s) == IF s = <<>> THEN 0 ELSE Head(s)[2] + SumNpv(Tail(s))

\* |spotMax - spotMin| < QL_EPSILON
DegenerateRange(g) == Abs(g.spotMax - g.spotMin) < QL_EPSILON

----------------------------------------------------------------------------
(* McFxTarfEngine: the state machine                                       *)

NoResults == [value |-> "unset", proxy |-> Null]

\* the engine after construction; calculate()'s loop variables at rest
EngineAtRest ==
    /\ results_ = NoResults
    /\ fixingTimes_ = <<>>
    /\ discounts_ = <<>>
    /\ accBucketLimits_ = <<>>
    /\ data_ = <<>>
    /\ proxy_ = Null
    /\ pc = "idle"
    /\ fix = 0
    /\ k0 = 0
    /\ k0Before = 0
    /\ groups = <<>>
    /\ thrown = NoError

ProxyAtRest ==
    /\ pf = Null
    /\ pfError = NoError
    /\ pfSpot = NoReal
    /\ pfValue = NoReal

\* Null<Size>() and Null<Real>(): the largest value of the type, which no
\* caller of the model passes
NullSize == 2147483647
NullReal == 2147483647

\* MakeMcFxTarfEngine(process), for a random number policy and a process
\* whose risk free rate is or is not given
MakerConstructed ==
    /\ steps_ = NullSize
    /\ stepsPerYear_ = NullSize
    /\ samples_ = NullSize
    /\ tolerance_ = NullReal
    /\ makeProxy_ = FALSE
    /\ called = {}
    /\ makeError = NoError
    /\ engine = Null

MakerAtRest ==
    /\ MakerConstructed
    /\ discount_ = "curve"
    /\ allowsErrorEstimate = TRUE

Init ==
    /\ generateProxy_ \in BOOLEAN
    /\ arguments_ \in ArgumentSet
    /\ EngineAtRest
    /\ ProxyAtRest
    /\ MakerAtRest

\* a reset that leaves the observations in place
ResetKeepingData ==
    /\ pc = "idle"
    /\ results_' = NoResults
    /\ fixingTimes_' = <<>>
    /\ discounts_' = <<>>
    /\ proxy_' = Null
    /\ accBucketLimits_' = <<>>
    /\ fix' = 0
    /\ k0' = 0
    /\ k0Before' = 0
    /\ groups' = <<>>
    /\ thrown' = NoError
    /\ UNCHANGED <<generateProxy_, arguments_, data_, pc, proxyVars, makerVars>>

\* McFxTarfEngine::reset()
Reset ==
    /\ pc = "idle"
    /\ results_' = NoResults
    /\ fixingTimes_' = <<>>
    /\ discounts_' = <<>>
    /\ proxy_' = Null
    /\ data_' = <<>>
    /\ accBucketLimits_' = <<>>
    /\ fix' = 0
    /\ k0' = 0
    /\ k0Before' = 0
    /\ groups' = <<>>
    /\ thrown' = NoError
    /\ UNCHANGED <<generateProxy_, arguments_, pc, proxyVars, makerVars>>

\* FxTarf::setupArguments, called on the engine just reset
SetupArguments ==
    /\ pc = "idle"
    /\ results_ = NoResults
    /\ fixingTimes_ = <<>>
    /\ arguments_' \in ArgumentSet
    /\ UNCHANGED <<generateProxy_, results_, fixingTimes_, discounts_,
                   accBucketLimits_, data_, proxy_, pc, fix, k0, k0Before,
                   groups, thrown, proxyVars, makerVars>>

\* FxTarfEngine::calculate(), "handle the trivial cases": with no open
\* fixing left the base engine sets the npv
TrivialCase(args) == args.openFixingDates = 0

\* "initialize the data container": a row of empty buckets for each entry
\* of fixingTimes_, this call's entries included
DataRows == Len(fixingTimes_) + arguments_.openFixingDates
EmptyRows(n) == [i1 \in 1..n |-> [i2 \in 1..nAccBuckets |-> <<>>]]

\* the data container after the simulation: the observations d of each open
\* fixing index joined to the row of that index
Simulated(rows, d) ==
    [i \in DOMAIN rows |->
        IF i \in DOMAIN d
        THEN [b \in DOMAIN rows[i] |-> Merge(rows[i][b], d[i][b])]
        ELSE rows[i]]

\* a calculate() that generates the proxy whether asked to or not
ProxyRequestedAlways(generateProxy) == TRUE

\* "if (generateProxy_)" before the bucket limits and the data container,
\* "if (!generateProxy_) return;" after the simulation
ProxyRequested(generateProxy) == generateProxy

\* calculate() up to the regression loop: the base engine, fixing times and
\* discounts, bucket limits, data container, the simulation (which fills the
\* data container with a member of Data), the value, the empty proxy
CalculateBegin(Data) ==
    /\ pc = "idle"
    /\ LET n == arguments_.openFixingDates
           value == IF TrivialCase(arguments_) THEN "set" ELSE results_.value
       IN IF value # "unset"
          THEN /\ results_' = [results_ EXCEPT !.value = value]
               /\ UNCHANGED <<fixingTimes_, discounts_, accBucketLimits_, data_,
                              proxy_, pc, fix, k0, k0Before, groups, thrown>>
          ELSE /\ fixingTimes_' = fixingTimes_ \o [j \in 1..n |-> j]
               /\ discounts_' = discounts_ \o [j \in 1..n |-> j]
               /\ results_' = [results_ EXCEPT !.value = "set"]
               /\ thrown' = NoError
               /\ groups' = [f \in 1..n |-> <<>>]
               /\ k0' = 0
               /\ k0Before' = 0
               /\ IF ProxyRequested(generateProxy_)
                  THEN /\ accBucketLimits_' =
                             PushBucketLimits(accBucketLimits_, arguments_.target,
                                              arguments_.accumulatedAmount)
                       /\ \E d \in Data :
                             data_' = Simulated(data_ \o EmptyRows(DataRows), d)
                       /\ proxy_' =
                             [openFixingDates |-> n,
                              accBucketLimits |-> accBucketLimits_',
                              functions |->
                                  [f \in 1..n |->
                                      [b \in 1..Len(accBucketLimits_') |-> Null]]]
                       /\ pc' = "regress"
                       /\ fix' = 1
                  ELSE UNCHANGED <<accBucketLimits_, data_, proxy_, pc, fix>>
    /\ UNCHANGED <<generateProxy_, arguments_, proxyVars, makerVars>>

\* a sanity check that lets every group pass
FailingSetNone(size1, size2) == 0

\* "final sanity check before regression": the set that fails it, 0 if none
FailingSet(size1, size2) ==
    IF size1 < minRegPoints THEN 1
    ELSE IF size2 < minRegPoints THEN 2
    ELSE 0

\* the message naming the other set
TooFewPointsOtherSet(i, set, size) ==
    [what |-> IF set = 1 THEN "too few points for regression in set 2"
              ELSE "too few points for regression in set 1",
     size |-> size]

\* the message of the final sanity check before regression, raised in the
\* pass for fixing index i: "too few points for regression in set <set>
\* (<size>)"
TooFewPoints(i, set, size) ==
    [what |-> IF set = 1 THEN "too few points for regression in set 1"
              ELSE "too few points for regression in set 2",
     size |-> size]

\* the group's record with what became of it
Built(g, what, fct) == [g EXCEPT !.outcome = what, !.fct = fct]

\* an exception leaves calculate()
Throw(g, error) ==
    /\ thrown' = error
    /\ pc' = "idle"
    /\ k0' = g.to
    /\ groups' = [groups EXCEPT ![fix] = Append(@, Built(g, "error", NoId))]
    /\ UNCHANGED <<results_, proxy_, fix, k0Before>>

\* the read of an element the vector does not hold ends the process
Crash(g) ==
    /\ thrown' = NoError
    /\ pc' = "crashed"
    /\ k0' = g.to
    /\ groups' = [groups EXCEPT ![fix] = Append(@, Built(g, "crash", NoId))]
    /\ UNCHANGED <<results_, proxy_, fix, k0Before>>

\* the row with fct in every cell, whatever k0Before
StoredCellsFromStart(row, before, to, fct) ==
    [b \in DOMAIN row |-> IF b - 1 < to THEN fct ELSE row[b]]

\* for (kk = k0Before; kk < k0; ++kk) proxy_->functions[i][kk] = fct
StoredCells(row, before, to, fct) ==
    [b \in DOMAIN row |-> IF before <= b - 1 /\ b - 1 < to THEN fct ELSE row[b]]

\* "store the proxy function", k0Before = k0, and the two loop conditions
Store(g, fn) ==
    LET fct == [id |-> <<fix, Len(groups[fix]) + 1>>, fn |-> fn]
        stored == [proxy_ EXCEPT !.functions[fix] =
                      StoredCells(@, k0Before, g.to, fct)]
    IN /\ proxy_' = stored
       /\ thrown' = NoError
       /\ groups' = [groups EXCEPT ![fix] = Append(@, Built(g, "built", fct.id))]
       /\ IF g.to < Len(data_[fix])
          THEN /\ k0' = g.to
               /\ k0Before' = g.to
               /\ UNCHANGED <<pc, fix, results_>>
          ELSE IF fix < arguments_.openFixingDates
          THEN /\ k0' = 0
               /\ k0Before' = 0
               /\ fix' = fix + 1
               /\ UNCHANGED <<pc, results_>>
          ELSE /\ k0' = g.to
               /\ k0Before' = g.to
               /\ pc' = "idle"
               /\ results_' = [results_ EXCEPT !.proxy = stored]
               /\ UNCHANGED fix

\* the constructor's result stored or thrown
Construct(g, made) ==
    IF made.ok THEN Store(g, made.fn) ELSE Throw(g, made.error)

\* the merged group from bucket k on and its split into two segments
GroupFrom(tmp, k, before, isCall) ==
    LET m == MergedGroup(tmp, k, PointsFrom(tmp, 0))
        s == SegmentSplit(m, isCall)
    IN [from |-> before, to |-> m.k0, outOfRange |-> m.outOfRange,
        xTmp |-> m.xTmp, spotMin |-> m.spotMin, spotMax |-> m.spotMax,
        relCutoffTmp |-> s.relCutoffTmp, cutoff |-> s.cutoff,
        sizeA |-> s.sizeA, sizeB |-> s.sizeB, passes |-> s.passes,
        xTmp1 |-> BelowCutoff(m.xTmp, s.cutoff),
        xTmp2 |-> AboveCutoff(m.xTmp, s.cutoff),
        outcome |-> "none", fct |-> NoId]

\* one pass of the do-while over the accumulated amount buckets
BuildGroup ==
    /\ pc = "regress"
    /\ \E g \in {GroupFrom(data_[fix], k0, k0Before,
                              arguments_.longPositionType = Call)} :
       LET isCall == arguments_.longPositionType = Call
           size == Len(g.xTmp)
           cutoff == <<g.cutoff, RelScale>>
       IN IF g.outOfRange \/ size = 0
          THEN \* tmp[k0] or xTmp[...] read out of range: the process ends, or
               \* the read yields some value and the sanity check throws
               \/ Crash(g)
               \/ /\ ~g.outOfRange
                  /\ Throw(g, TooFewPoints(fix, 1, Len(g.xTmp1)))
          ELSE IF DegenerateRange(g)
          THEN LET avg == RDiv(SumNpv(g.xTmp1) + SumNpv(g.xTmp2),
                               Len(g.xTmp1) + Len(g.xTmp2))
               IN \E garbage \in GarbageFor(0, 0, 0, 0) :
                     Construct(g, QuadraticProxyFunction(
                         arguments_.longPositionType, cutoff, 0, 0, avg, 0, 0,
                         avg, R(-QL_MAX_REAL), R(g.spotMin), R(g.spotMax),
                         garbage))
          ELSE IF FailingSet(Len(g.xTmp1), Len(g.xTmp2)) = 1
          THEN Throw(g, TooFewPoints(fix, 1, Len(g.xTmp1)))
          ELSE IF FailingSet(Len(g.xTmp1), Len(g.xTmp2)) = 2
          THEN Throw(g, TooFewPoints(fix, 2, Len(g.xTmp2)))
          ELSE LET lowerCutoff ==
                       RMin(R(g.xTmp[LowerCutoffIndex(size, isCall) + 1][1]), cutoff)
                   coreRegionMin == R(g.xTmp[CoreMinIndex(size) + 1][1])
                   coreRegionMax == R(g.xTmp[CoreMaxIndex(size) + 1][1])
               IN \E r1 \in RegressionFits, r2 \in RegressionFits :
                     \E garbage \in GarbageFor(r1.a, r1.b, r2.a, r2.b) :
                        Construct(g, QuadraticProxyFunction(
                            arguments_.longPositionType, cutoff,
                            r1.a, r1.b, r1.c, r2.a, r2.b, r2.c,
                            lowerCutoff, coreRegionMin, coreRegionMax, garbage))
    /\ UNCHANGED <<generateProxy_, arguments_, fixingTimes_, discounts_,
                   accBucketLimits_, data_, proxyVars, makerVars>>

\* calculate() left by an exception of the simulation, before any path
\* was priced: fixing times, discounts, bucket limits and the rows of the
\* data container are in place, the value is not set.  At most one such
\* call between two calls of reset().
CalculateFailing ==
    /\ pc = "idle"
    /\ ~TrivialCase(arguments_)
    /\ results_.value = "unset"
    /\ fixingTimes_ = <<>>
    /\ LET n == arguments_.openFixingDates
       IN /\ fixingTimes_' = fixingTimes_ \o [j \in 1..n |-> j]
          /\ discounts_' = discounts_ \o [j \in 1..n |-> j]
          /\ IF ProxyRequested(generateProxy_)
             THEN /\ accBucketLimits_' =
                        PushBucketLimits(accBucketLimits_, arguments_.target,
                                         arguments_.accumulatedAmount)
                  /\ data_' = data_ \o EmptyRows(DataRows)
             ELSE UNCHANGED <<accBucketLimits_, data_>>
    /\ thrown' = [what |-> "simulation failed"]
    /\ UNCHANGED <<generateProxy_, arguments_, results_, proxy_, pc, fix, k0,
                   k0Before, groups, proxyVars, makerVars>>

CalculateTemplates == CalculateBegin(TemplateData(arguments_.openFixingDates))
CalculateRich == CalculateBegin(RichData(arguments_.openFixingDates))

Next == Reset \/ SetupArguments \/ CalculateTemplates \/ BuildGroup

Spec == Init /\ [][Next]_vars

\* the engine used directly: calculate() may fail in the simulation and be
\* called again without reset()
NextStale ==
    \/ Reset
    \/ SetupArguments
    \/ CalculateFailing
    \/ CalculateTemplates
    \/ BuildGroup

SpecStale == Init /\ [][NextStale]_vars

\* the bucket merger on every vector of bucket sizes: one open fixing date,
\* proxy generation on, the arguments otherwise fixed
InitMerge ==
    /\ generateProxy_ = TRUE
    /\ arguments_ \in {a \in ArgumentSet : /\ a.openFixingDates = 1
                                          /\ a.accumulatedAmount = 0
                                          /\ a.target = 1}
    /\ EngineAtRest
    /\ ProxyAtRest
    /\ MakerAtRest

NextMerge == Reset \/ CalculateRich \/ BuildGroup

SpecMerge == InitMerge /\ [][NextMerge]_vars

----------------------------------------------------------------------------
(* A QuadraticProxyFunction constructed and evaluated on its own           *)

Coefficients == (0 - MaxCoef)..MaxCoef
QuerySpots == {R(x) : x \in 0..MaxSpot}

\* FxTarf::Proxy::ProxyFunction built by its constructor from the arguments
PfConstruct ==
    /\ pf = Null
    /\ pfError = NoError
    /\ \E type \in {Call, Put}, a1 \in Coefficients, b1 \in Coefficients,
          a2 \in Coefficients, b2 \in Coefficients, c2 \in {R(0), R(1)},
          L \in 0..MaxSpot :
          \E garbage \in GarbageFor(a1, b1, a2, b2) :
             \E made \in {QuadraticProxyFunction(
                              type, R(MaxSpot - 1), a1, b1, R(0), a2, b2, c2,
                              R(L), R(0), R(MaxSpot), garbage)} :
                IF made.ok
                THEN pf' = made.fn /\ UNCHANGED pfError
                ELSE pfError' = made.error /\ UNCHANGED pf
    /\ UNCHANGED <<pfSpot, pfValue, engineVars, makerVars>>

\* operator()(spot) called on the constructed function
PfEvaluate ==
    /\ pf # Null
    /\ \E spot \in QuerySpots :
          /\ pfSpot' = spot
          /\ pfValue' = Evaluate(pf, spot)
    /\ UNCHANGED <<pf, pfError, engineVars, makerVars>>

InitProxy ==
    /\ generateProxy_ = FALSE
    /\ arguments_ = [openFixingDates |-> 0, target |-> 1,
                     accumulatedAmount |-> 0, longPositionType |-> Call]
    /\ EngineAtRest
    /\ ProxyAtRest
    /\ MakerAtRest

NextProxy == PfConstruct \/ PfEvaluate

SpecProxy == InitProxy /\ [][NextProxy]_vars

----------------------------------------------------------------------------
(* MakeMcFxTarfEngine and the constructor of McFxTarfEngine.  The named     *)
(* parameters withBrownianBridge, withAntitheticVariate, withMaxSamples and *)
(* withSeed only store their argument and are left out.                    *)

Sizes == 0..MaxSize
Tolerances == 1..MaxSize

\* a constructor that accepts any number of steps
McFxTarfEngineAnySteps(timeSteps, timeStepsPerYear, requiredSamples, requiredTolerance, discount, generateProxy) ==
    [ok |-> TRUE,
     engine |-> [timeSteps_ |-> timeSteps, timeStepsPerYear_ |-> timeStepsPerYear,
                 requiredSamples_ |-> requiredSamples,
                 requiredTolerance_ |-> requiredTolerance,
                 generateProxy_ |-> generateProxy]]

\* a constructor that wants a sample count or a tolerance
McFxTarfEngineWantingSamples(timeSteps, timeStepsPerYear, requiredSamples, requiredTolerance, discount, generateProxy) ==
    IF requiredSamples = NullSize /\ requiredTolerance = NullReal
    THEN [ok |-> FALSE,
          error |-> [what |-> "neither tolerance nor number of samples set"]]
    ELSE McFxTarfEngineAnySteps(timeSteps, timeStepsPerYear, requiredSamples,
                                requiredTolerance, discount, generateProxy)

\* McFxTarfEngine::McFxTarfEngine
McFxTarfEngine(timeSteps, timeStepsPerYear, requiredSamples, requiredTolerance, discount, generateProxy) ==
    IF ~(timeSteps # NullSize \/ timeStepsPerYear # NullSize)
    THEN [ok |-> FALSE, error |-> [what |-> "no time steps provided"]]
    ELSE IF ~(timeSteps = NullSize \/ timeStepsPerYear = NullSize)
    THEN [ok |-> FALSE,
          error |-> [what |-> "both time steps and time steps per year were provided"]]
    ELSE IF ~(timeSteps # 0)
    THEN [ok |-> FALSE, error |-> [what |-> "timeSteps must be positive"]]
    ELSE IF ~(timeStepsPerYear # 0)
    THEN [ok |-> FALSE, error |-> [what |-> "timeStepsPerYear must be positive"]]
    ELSE IF ~(discount # "empty")
    THEN [ok |-> FALSE, error |-> [what |-> "no discount curve given"]]
    ELSE [ok |-> TRUE,
          engine |-> [timeSteps_ |-> timeSteps,
                      timeStepsPerYear_ |-> timeStepsPerYear,
                      requiredSamples_ |-> requiredSamples,
                      requiredTolerance_ |-> requiredTolerance,
                      generateProxy_ |-> generateProxy]]

\* the factory is still being configured
Configuring == "convert" \notin called

\* a named parameter stored without a check
Given(name) ==
    /\ called' = called \cup {name}
    /\ makeError' = NoError

WithSteps ==
    /\ Configuring
    /\ \E steps \in Sizes : steps_' = steps
    /\ Given("withSteps")
    /\ UNCHANGED <<stepsPerYear_, samples_, tolerance_, discount_, makeProxy_,
                   allowsErrorEstimate, engine, engineVars, proxyVars>>

WithStepsPerYear ==
    /\ Configuring
    /\ \E steps \in Sizes : stepsPerYear_' = steps
    /\ Given("withStepsPerYear")
    /\ UNCHANGED <<steps_, samples_, tolerance_, discount_, makeProxy_,
                   allowsErrorEstimate, engine, engineVars, proxyVars>>

WithDiscount ==
    /\ Configuring
    /\ \E discount \in {"empty", "curve"} : discount_' = discount
    /\ Given("withDiscount")
    /\ UNCHANGED <<steps_, stepsPerYear_, samples_, tolerance_, makeProxy_,
                   allowsErrorEstimate, engine, engineVars, proxyVars>>

WithProxy ==
    /\ Configuring
    /\ \E b \in BOOLEAN : makeProxy_' = b
    /\ Given("withProxy")
    /\ UNCHANGED <<steps_, stepsPerYear_, samples_, tolerance_, discount_,
                   allowsErrorEstimate, engine, engineVars, proxyVars>>

\* a withSamples that never objects
WithSamplesRequireNothing(tolerance) == NoError

\* the QL_REQUIRE of withSamples
WithSamplesRequire(tolerance) ==
    IF tolerance = NullReal THEN NoError ELSE [what |-> "tolerance already set"]

\* the QL_REQUIREs of withAbsoluteTolerance
WithAbsoluteToleranceRequire(samples, allows) ==
    IF ~(samples = NullSize)
    THEN [what |-> "number of samples already set"]
    ELSE IF ~allows
    THEN [what |-> "chosen random generator policy does not allow an error estimate"]
    ELSE NoError

WithSamples ==
    /\ Configuring
    /\ \E samples \in Sizes :
          IF WithSamplesRequire(tolerance_) = NoError
          THEN /\ samples_' = samples
               /\ Given("withSamples")
          ELSE /\ makeError' = WithSamplesRequire(tolerance_)
               /\ UNCHANGED <<samples_, called>>
    /\ UNCHANGED <<steps_, stepsPerYear_, tolerance_, discount_, makeProxy_,
                   allowsErrorEstimate, engine, engineVars, proxyVars>>

WithAbsoluteTolerance ==
    /\ Configuring
    /\ \E tolerance \in Tolerances :
          IF WithAbsoluteToleranceRequire(samples_, allowsErrorEstimate) = NoError
          THEN /\ tolerance_' = tolerance
               /\ Given("withAbsoluteTolerance")
          ELSE /\ makeError' =
                      WithAbsoluteToleranceRequire(samples_, allowsErrorEstimate)
               /\ UNCHANGED <<tolerance_, called>>
    /\ UNCHANGED <<steps_, stepsPerYear_, samples_, discount_, makeProxy_,
                   allowsErrorEstimate, engine, engineVars, proxyVars>>

\* the QL_REQUIREs of the conversion to a pricing engine
ConversionRequire(steps, stepsPerYear) ==
    IF ~(steps # NullSize \/ stepsPerYear # NullSize)
    THEN [what |-> "number of steps not given"]
    ELSE IF ~(steps = NullSize \/ stepsPerYear = NullSize)
    THEN [what |-> "number of steps overspecified"]
    ELSE NoError

\* MakeMcFxTarfEngine::operator boost::shared_ptr<PricingEngine>()
ToPricingEngine ==
    /\ Configuring
    /\ called' = called \cup {"convert"}
    /\ IF ConversionRequire(steps_, stepsPerYear_) # NoError
       THEN /\ makeError' = ConversionRequire(steps_, stepsPerYear_)
            /\ engine' = Null
       ELSE \E made \in {McFxTarfEngine(steps_, stepsPerYear_, samples_,
                                         tolerance_, discount_, makeProxy_)} :
              IF made.ok
              THEN /\ engine' = made.engine
                   /\ makeError' = NoError
              ELSE /\ engine' = Null
                   /\ makeError' = made.error
    /\ UNCHANGED <<steps_, stepsPerYear_, samples_, tolerance_, discount_,
                   makeProxy_, allowsErrorEstimate, engineVars, proxyVars>>

InitMaker ==
    /\ generateProxy_ = FALSE
    /\ arguments_ = [openFixingDates |-> 0, target |-> 1,
                     accumulatedAmount |-> 0, longPositionType |-> Call]
    /\ EngineAtRest
    /\ ProxyAtRest
    /\ MakerConstructed
    /\ discount_ \in {"empty", "curve"}
    /\ allowsErrorEstimate \in BOOLEAN

NextMaker ==
    \/ WithSteps
    \/ WithStepsPerYear
    \/ WithSamples
    \/ WithAbsoluteTolerance
    \/ WithDiscount
    \/ WithProxy
    \/ ToPricingEngine

SpecMaker == InitMaker /\ [][NextMaker]_vars

----------------------------------------------------------------------------
(* Properties                                                              *)

\* the fixing indices of the running or finished calculate()
Fixings == DOMAIN groups \cap DOMAIN data_
\* number of observations of fixing index f
Total(f) == PointsFrom(data_[f], 0)
\* observations of the buckets from..to-1 (0-based), bucket after bucket
RECURSIVE BucketsConcat(_, _, _)
BucketsConcat(tmp, from, to) ==
    IF from >= to \/ from >= Len(tmp) THEN <<>>
    ELSE tmp[from + 1] \o BucketsConcat(tmp, from + 1, to)
Occurrences(seq, v) == Cardinality({i \in DOMAIN seq : seq[i] = v})
\* s and t hold the same observations, each as often
SameObservations(s, t) ==
    /\ Len(s) = Len(t)
    /\ \A i \in DOMAIN s : Occurrences(s, s[i]) = Occurrences(t, s[i])
RECURSIVE SumSizes(_)
SumSizes(gs) == IF gs = <<>> THEN 0 ELSE Len(Head(gs).xTmp) + SumSizes(Tail(gs))
\* buckets consumed by the groups gs
Consumed(gs) == IF gs = <<>> THEN 0 ELSE gs[Len(gs)].to
\* every bucket of fixing index f was merged and every group got its function
RowComplete(f) ==
    /\ groups[f] # <<>>
    /\ Consumed(groups[f]) = Len(data_[f])
    /\ groups[f][Len(groups[f])].outcome = "built"
Spans(g) == g.to - g.from
TooFewErrors == {"too few points for regression in set 1",
                 "too few points for regression in set 2"}

\* C1: a merged group whose observations all lie on one spot raises no
\* error and gets a stored function that returns the mean of the group's
\* payoffs at every query spot, for calls and for puts.
C1_DegenerateGroupGetsMean ==
    \A f \in Fixings :
        \A j \in DOMAIN groups[f] :
            LET g == groups[f][j]
                mean == RDiv(SumNpv(g.xTmp), Len(g.xTmp))
            IN (g.xTmp # <<>> /\ DegenerateRange(g)) =>
                  /\ g.outcome = "built"
                  /\ \A b \in (g.from + 1)..g.to :
                        /\ proxy_.functions[f][b] # Null
                        /\ \A x \in QuerySpots :
                              REq(Evaluate(proxy_.functions[f][b].fn, x), mean)

\* C2: a function the constructor accepted, all of whose members the
\* constructor assigned, is non-decreasing in the spot for a call and
\* non-increasing for a put, over every pair of query spots.
C2_Monotone ==
    (pf # Null /\ ~Close(pf.a1, 0) /\ ~Close(pf.a2, 0)) =>
        \A x1 \in QuerySpots, x2 \in QuerySpots :
            RLess(x1, x2) =>
                IF pf.type = Call
                THEN RLeq(Evaluate(pf, x1), Evaluate(pf, x2))
                ELSE RLeq(Evaluate(pf, x2), Evaluate(pf, x1))

\* C3: for every fixing index the merged groups cover consecutive bucket
\* ranges, each group holds exactly the observations of its buckets, and
\* the sizes of the groups and of the buckets not yet merged add up to the
\* number of observations; once all buckets are merged, the group sizes add
\* up to the sum of the bucket sizes.
C3_MergePreservesPoints ==
    \A f \in Fixings :
        LET gs == groups[f]
        IN /\ \A j \in DOMAIN gs :
                 /\ gs[j].from = (IF j = 1 THEN 0 ELSE gs[j - 1].to)
                 /\ SameObservations(gs[j].xTmp,
                                     BucketsConcat(data_[f], gs[j].from, gs[j].to))
           /\ SumSizes(gs) + PointsFrom(data_[f], Consumed(gs)) = Total(f)
           /\ Consumed(gs) = Len(data_[f]) => SumSizes(gs) = Total(f)

\* every bucket merged, one group made of several non-empty buckets
C3_Witness ==
    /\ results_.proxy # Null
    /\ \E f \in Fixings :
          /\ RowComplete(f)
          /\ Len(groups[f]) >= 2
          /\ SumSizes(groups[f]) = Total(f)
          /\ \E j \in DOMAIN groups[f] :
                /\ Spans(groups[f][j]) >= 2
                /\ Len(data_[f][groups[f][j].from + 1]) > 0
                /\ Len(data_[f][groups[f][j].from + 2]) > 0

\* C4: for a fixing index with at least one observation, every merged group
\* satisfies dFactor * groupSize >= totalPoints.
C4_GroupsDense ==
    \A f \in Fixings :
        Total(f) >= 1 =>
            \A j \in DOMAIN groups[f] :
                dFactor * Len(groups[f][j].xTmp) >= Total(f)

\* a first group merged from a sparse bucket and its neighbour, and a last
\* group that a dense bucket forms with the sparse rest joined to it
C4_Witness ==
    \E f \in Fixings :
        LET gs == groups[f]
        IN /\ Len(gs) >= 2
           /\ Spans(gs[1]) >= 2
           /\ dFactor * Len(data_[f][1]) < Total(f)
           /\ Spans(gs[Len(gs)]) >= 2
           /\ dFactor * Len(data_[f][gs[Len(gs)].from + 1]) >= Total(f)
           /\ gs[Len(gs)].to = Len(data_[f])

\* C5: a group that is not degenerate and has fewer than minRegPoints
\* points below or above the cutoff ends calculate() with the error of the
\* sanity check, and no function is built from it.
C5_TooFewPointsRaise ==
    \A f \in Fixings :
        \A j \in DOMAIN groups[f] :
            LET g == groups[f][j]
            IN (~DegenerateRange(g) /\ FailingSet(Len(g.xTmp1), Len(g.xTmp2)) # 0) =>
                  /\ g.outcome = "error"
                  /\ thrown.what \in TooFewErrors

\* C6 (as stated): the error of the sanity check tells the fixing index: the
\* error raised in the pass for another fixing index would be another error.
C6_ErrorReportsFixingIndex ==
    thrown.what \in TooFewErrors =>
        \A f \in 1..MaxFixings :
            f # fix => \A set \in {1, 2} : TooFewPoints(f, set, thrown.size) # thrown

\* C6 (amended): the error of the sanity check names the set that failed,
\* set 1 below the cutoff or set 2 above it, and that set's size.
C6_ErrorReportsSegment ==
    thrown.what \in TooFewErrors =>
        LET g == groups[fix][Len(groups[fix])]
        IN IF Len(g.xTmp1) < minRegPoints
           THEN thrown = [what |-> "too few points for regression in set 1",
                          size |-> Len(g.xTmp1)]
           ELSE /\ Len(g.xTmp2) < minRegPoints
                /\ thrown = [what |-> "too few points for regression in set 2",
                             size |-> Len(g.xTmp2)]

\* the sanity check fails in the pass for the second fixing index
C6_Witness ==
    /\ thrown.what \in TooFewErrors
    /\ fix = 2
    /\ pc = "idle"

\* every bucket of fixing index f holds TooFewSize observations
FloorScenario(f) ==
    \A b \in DOMAIN data_[f] : Len(data_[f][b]) = TooFewSize

\* C7 (as stated): with TooFewSize observations in each bucket every group
\* is merged from at least two buckets, and every group handed on by the
\* merger has minRegPoints points in each of its two segments.
C7_FloorForcesMerging ==
    \A f \in Fixings :
        \A j \in DOMAIN groups[f] :
            LET g == groups[f][j]
            IN /\ FloorScenario(f) => Spans(g) >= 2
               /\ (g.xTmp # <<>> /\ ~DegenerateRange(g)) =>
                     FailingSet(Len(g.xTmp1), Len(g.xTmp2)) = 0

\* C7 (amended): with TooFewSize observations in each bucket the merger
\* leaves each bucket a group of its own and no function is built from it;
\* a function is built from a group that is not degenerate only if each of
\* its two segments has minRegPoints points.
C7_FloorCheckedAfterMerging ==
    \A f \in Fixings :
        \A j \in DOMAIN groups[f] :
            LET g == groups[f][j]
            IN /\ FloorScenario(f) => (Spans(g) = 1 /\ g.outcome # "built")
               /\ (g.outcome = "built" /\ ~DegenerateRange(g)) =>
                     /\ Len(g.xTmp1) >= minRegPoints
                     /\ Len(g.xTmp2) >= minRegPoints

\* 20 observations, 4 in each bucket: the first bucket alone fails the check
C7_Witness ==
    \E f \in Fixings :
        /\ FloorScenario(f)
        /\ Total(f) = nAccBuckets * TooFewSize
        /\ groups[f] # <<>>
        /\ Spans(groups[f][1]) = 1
        /\ groups[f][1].outcome = "error"
        /\ thrown.what \in TooFewErrors

\* every bucket of fixing index f satisfies dFactor * size >= totalPoints
AllBucketsDense(f) ==
    \A b \in DOMAIN data_[f] : dFactor * Len(data_[f][b]) >= Total(f)

\* C8: where every bucket satisfies dFactor * size >= totalPoints, every
\* group is one bucket, and the finished row holds nAccBuckets pairwise
\* distinct function instances.
C8_NoMergingWhenDense ==
    \A f \in Fixings :
        AllBucketsDense(f) =>
            /\ \A j \in DOMAIN groups[f] : Spans(groups[f][j]) = 1
            /\ RowComplete(f) =>
                  /\ Len(groups[f]) = nAccBuckets
                  /\ \A b1 \in 1..nAccBuckets, b2 \in 1..nAccBuckets :
                        /\ proxy_.functions[f][b1] # Null
                        /\ b1 # b2 => proxy_.functions[f][b1].id #
                                        proxy_.functions[f][b2].id

\* a finished row of dense buckets, each with observations
C8_Witness ==
    \E f \in Fixings :
        /\ AllBucketsDense(f)
        /\ Total(f) >= nAccBuckets
        /\ RowComplete(f)
        /\ Len(groups[f]) = nAccBuckets

\* C9: after a successful calculate() with proxy generation, for each fixing
\* index the groups split the bucket indices into consecutive non-empty
\* ranges, every cell references a function, and two cells reference the
\* same instance exactly when their buckets belong to the same group.
C9_GroupsPartitionRow ==
    results_.proxy # Null =>
        \A f \in 1..arguments_.openFixingDates :
            LET gs == groups[f]
                row == results_.proxy.functions[f]
                GroupOf(b) == CHOOSE j \in DOMAIN gs :
                                 gs[j].from <= b - 1 /\ b - 1 < gs[j].to
            IN /\ gs # <<>>
               /\ gs[1].from = 0
               /\ gs[Len(gs)].to = nAccBuckets
               /\ \A j \in DOMAIN gs :
                     /\ gs[j].from < gs[j].to
                     /\ j > 1 => gs[j].from = gs[j - 1].to
               /\ DOMAIN row = 1..nAccBuckets
               /\ \A b \in DOMAIN row : row[b] # Null
               /\ \A b1 \in DOMAIN row, b2 \in DOMAIN row :
                     (row[b1].id = row[b2].id) <=> (GroupOf(b1) = GroupOf(b2))

\* two fixing indices done, one of them with a group of several buckets
C9_Witness ==
    /\ results_.proxy # Null
    /\ arguments_.openFixingDates = 2
    /\ \E f \in 1..2 :
          /\ Len(groups[f]) >= 2
          /\ \E j \in DOMAIN groups[f] : Spans(groups[f][j]) >= 2

\* C10: whenever calculate() has computed the bucket limits (target >
\* accumulatedAmount >= 0, nAccBuckets buckets), there are exactly
\* nAccBuckets of them, the first is 0, they are non-decreasing, and each
\* lies below target (the limits are held multiplied by nAccBuckets).
C10_BucketLimits ==
    accBucketLimits_ # <<>> =>
        /\ Len(accBucketLimits_) = nAccBuckets
        /\ accBucketLimits_[1] = 0
        /\ \A i \in 1..(Len(accBucketLimits_) - 1) :
              accBucketLimits_[i] <= accBucketLimits_[i + 1]
        /\ \A i \in 1..Len(accBucketLimits_) :
              accBucketLimits_[i] < nAccBuckets * arguments_.target

\* limits computed from a positive accumulated amount
C10_Witness ==
    /\ Len(accBucketLimits_) = nAccBuckets
    /\ arguments_.accumulatedAmount > 0
    /\ accBucketLimits_[2] > nAccBuckets * arguments_.accumulatedAmount

\* C11: the bucket limits are uniformly spaced, limits[i] = accumulatedAmount
\* + (i/N) * (target - accumulatedAmount) for 1 <= i < N, with limits[0]
\* forced to 0 (all held multiplied by N = nAccBuckets); target 1 and
\* accumulated amount 0 give 0, 1/5, 2/5, 3/5, 4/5.
C11_UniformLimits ==
    accBucketLimits_ # <<>> =>
        /\ accBucketLimits_[1] = 0
        /\ \A i \in 1..(nAccBuckets - 1) :
              accBucketLimits_[i + 1] =
                  nAccBuckets * arguments_.accumulatedAmount +
                  i * (arguments_.target - arguments_.accumulatedAmount)
        /\ (arguments_.target = 1 /\ arguments_.accumulatedAmount = 0) =>
              accBucketLimits_ = <<0, 1, 2, 3, 4>>

\* the limits of target 1 and accumulated amount 0
C11_Witness ==
    /\ arguments_.target = 1
    /\ arguments_.accumulatedAmount = 0
    /\ accBucketLimits_ = <<0, 1, 2, 3, 4>>


\* the step settings of the factory
StepsSet == steps_ # NullSize
StepsPerYearSet == stepsPerYear_ # NullSize
Converted == "convert" \in called

\* C12: the conversion of the factory yields an engine only when exactly one
\* of steps and stepsPerYear was set, whatever the order of the calls: with
\* neither or both it raises an error and yields no engine; the constructor
\* of the engine accepts only exactly one of the two and no step count of 0.
C12_StepsExactlyOne ==
    /\ StepsSet <=> "withSteps" \in called
    /\ StepsPerYearSet <=> "withStepsPerYear" \in called
    /\ Converted =>
          /\ engine # Null =>
                /\ StepsSet # StepsPerYearSet
                /\ steps_ # 0 /\ stepsPerYear_ # 0
                /\ makeError = NoError
          /\ (~StepsSet /\ ~StepsPerYearSet) =>
                /\ engine = Null
                /\ makeError = [what |-> "number of steps not given"]
          /\ (StepsSet /\ StepsPerYearSet) =>
                /\ engine = Null
                /\ makeError = [what |-> "number of steps overspecified"]
          /\ engine = Null => makeError # NoError
    /\ \A timeSteps, timeStepsPerYear \in Sizes \cup {NullSize} :
          McFxTarfEngine(timeSteps, timeStepsPerYear, samples_, tolerance_,
                         discount_, makeProxy_).ok =>
              /\ (timeSteps # NullSize) # (timeStepsPerYear # NullSize)
              /\ timeSteps # 0 /\ timeStepsPerYear # 0

C12_Witness ==
    /\ Converted
    /\ engine # Null
    /\ called \cap {"withSteps", "withStepsPerYear"} = {"withStepsPerYear"}

C12_WitnessBoth ==
    /\ Converted
    /\ engine = Null
    /\ {"withSteps", "withStepsPerYear"} \subseteq called

\* C13: samples and tolerance are never both set: withSamples raises an
\* error when a tolerance is set, withAbsoluteTolerance raises one when a
\* sample count is set or the random number policy allows no error estimate,
\* and a call that raises an error leaves every field of the factory as it was.
C13_SamplesOrTolerance ==
    /\ [](~(samples_ # NullSize /\ tolerance_ # NullReal))
    /\ [][/\ tolerance_ # NullReal => samples_' = samples_
          /\ (samples_ # NullSize \/ ~allowsErrorEstimate) =>
                tolerance_' = tolerance_
          /\ makeError' # NoError =>
                UNCHANGED <<steps_, stepsPerYear_, samples_, tolerance_,
                            discount_, makeProxy_>>]_vars

C13_Witness ==
    /\ makeError = [what |-> "tolerance already set"]
    /\ tolerance_ # NullReal
    /\ samples_ = NullSize

\* C14 (as stated): a conversion with neither samples nor tolerance set
\* raises an error and yields no engine.
C14_NoSamplesRejected ==
    (Converted /\ samples_ = NullSize /\ tolerance_ = NullReal) =>
        (engine = Null /\ makeError # NoError)

\* C14: neither the conversion nor the constructor looks at samples and
\* tolerance: with both unset, exactly one non-zero step setting and a
\* discount curve the conversion yields an engine without raising an error.
C14_NoSamplesEngineBuilt ==
    (/\ Converted
     /\ samples_ = NullSize /\ tolerance_ = NullReal
     /\ StepsSet # StepsPerYearSet
     /\ steps_ # 0 /\ stepsPerYear_ # 0
     /\ discount_ # "empty") =>
        /\ engine # Null
        /\ makeError = NoError
        /\ engine.requiredSamples_ = NullSize
        /\ engine.requiredTolerance_ = NullReal

C14_Witness ==
    /\ Converted
    /\ engine # Null
    /\ samples_ = NullSize
    /\ tolerance_ = NullReal


\* calculate() has returned with the proxy as its result
ProxyReturned == pc = "idle" /\ results_.proxy # Null

\* C15 (as stated): once calculate() has returned the proxy, data_ is empty.
C15_DataDiscarded == ProxyReturned => data_ = <<>>

\* C15: calculate() returns the proxy with data_ still holding the
\* observations of every fixing index, all those the functions were fitted
\* to; data_ is emptied by reset() only, along with the results.
C15_DataKeptUntilReset ==
    /\ ProxyReturned =>
          /\ Len(data_) = Len(fixingTimes_)
          /\ data_ # <<>>
          /\ \A f \in DOMAIN data_ :
                /\ Total(f) > 0
                /\ Total(f) = SumSizes(groups[f])
    /\ results_ = NoResults => data_ = <<>>
    /\ data_ = <<>> => results_.proxy = Null

C15_Witness ==
    /\ ProxyReturned
    /\ Len(data_) = MaxFixings
    /\ \A f \in DOMAIN data_ : Total(f) = nAccBuckets * MaxBucketSize


\* C16: without generateProxy calculate() makes no bucket limits and no
\* data container and leaves the proxy of the engine and of the results
\* unset; limits, observations and a proxy exist only with generateProxy.
C16_NoProxyUnlessRequested ==
    /\ ~generateProxy_ =>
          /\ accBucketLimits_ = <<>>
          /\ data_ = <<>>
          /\ proxy_ = Null
          /\ results_.proxy = Null
          /\ pc = "idle"
    /\ (accBucketLimits_ # <<>> \/ data_ # <<>> \/ proxy_ # Null
            \/ results_.proxy # Null) => generateProxy_

C16_Witness ==
    /\ ~generateProxy_
    /\ ~TrivialCase(arguments_)
    /\ results_.value = "set"
    /\ fixingTimes_ # <<>>
    /\ data_ = <<>>
    /\ results_.proxy = Null


\* the groups of the fixing index at work, the last one just split
IsCall == arguments_.longPositionType = Call
HasGroup == fix \in DOMAIN groups /\ groups[fix] # <<>>
LastGroup == groups[fix][Len(groups[fix])]
\* relCutoffTmp before the loop, and the loop on the last group
InitialRel == IF IsCall THEN (relCutoff * RelScale) \div 100
              ELSE RelScale - (relCutoff * RelScale) \div 100
LastSplit == SegmentSplit(LastGroup, IsCall)
Range(seq) == {seq[i] : i \in DOMAIN seq}
\* relCutoffTmp is on its side of 0.5
NotCrossed(rel) == IF IsCall THEN 2 * rel > RelScale ELSE 2 * rel < RelScale
\* Rmin * (1 - rel) * N + 1, truncated
SegmentFloor(rel, size) ==
    (minCutoffRatio * (RelScale - rel) * size) \div (100 * RelScale) + 1

\* C17 (as stated): a pass shrinks relCutoffTmp exactly when it has not
\* crossed 0.5 and the critical size is below both minima.
C17_ShrinkWhenBelowBoth ==
    HasGroup =>
        \A split \in {LastSplit} : \A pass \in Range(split.trace) :
               pass.shrunk <=>
                 /\ NotCrossed(pass.rel)
                 /\ pass.criticalSize < SegmentFloor(pass.rel, Len(LastGroup.xTmp))
                 /\ pass.criticalSize < minRegPoints

\* C17: a pass shrinks relCutoffTmp exactly when it has not crossed 0.5 and
\* the critical size is below at least one of the two minima, the first one
\* computed once from the relCutoffTmp the loop starts with; the shrinking
\* stops only when the critical segment meets both or 0.5 is crossed.
C17_ShrinkWhenBelowEither ==
    HasGroup =>
        \A split \in {LastSplit} : \A pass \in Range(split.trace) :
               pass.shrunk <=>
                 /\ NotCrossed(pass.rel)
                 /\ \/ pass.criticalSize <
                          SegmentFloor(InitialRel, Len(LastGroup.xTmp))
                    \/ pass.criticalSize < minRegPoints

\* a pass shrank with the critical size at or above one of the minima
C17_Witness ==
    /\ HasGroup
    /\ \E split \in {LastSplit} : \E pass \in Range(split.trace) :
             /\ pass.shrunk
             /\ pass.criticalSize >= SegmentFloor(InitialRel, Len(LastGroup.xTmp))
             /\ pass.criticalSize > 0
             /\ pass.criticalSize < minRegPoints


\* relCutoffTmp after one shrink step of its option type
Shrunk(rel) == IF IsCall THEN (rel * cutoffShrinkFactor) \div 100
               ELSE (rel * 100) \div cutoffShrinkFactor
\* the critical segment holds enough points
MeetsMinimum(criticalSize, size) ==
    /\ criticalSize >= SegmentFloor(InitialRel, size)
    /\ criticalSize >= minRegPoints
\* v moved from u in the direction the option type shrinks in
Toward(u, v) == IF IsCall THEN v < u ELSE v > u

\* C18: the shrink loop ends on every group of both option types.  It
\* starts from 0.80 (call) or 0.20 (put); every pass but the last takes
\* relCutoffTmp one factor 0.99 closer to 0.5 without crossing it, moves the
\* cutoff of a group with points the same way (down for a call, up for a
\* put) and leaves the critical segment at least as large in the next
\* pass; after the last pass the critical segment holds enough points or
\* relCutoffTmp has crossed 0.5.
C18_ShrinkLoopEnds ==
    HasGroup =>
        \A split \in {LastSplit} :
            LET trace == split.trace
                n == Len(trace)
                size == Len(LastGroup.xTmp)
            IN /\ n = split.passes /\ n >= 1
               /\ trace[1].rel = InitialRel
               /\ \A p \in 1..(n - 1) :
                     /\ trace[p].shrunk
                     /\ trace[p + 1].rel = Shrunk(trace[p].rel)
                     /\ Toward(trace[p].rel, trace[p + 1].rel)
                     /\ NotCrossed(trace[p + 1].rel)
                     /\ size > 0 =>
                           \/ Toward(trace[p].at, trace[p + 1].at)
                           \/ /\ LastGroup.spotMin = LastGroup.spotMax
                              /\ trace[p + 1].at = trace[p].at
                     /\ trace[p + 1].criticalSize >= trace[p].criticalSize
               /\ \/ MeetsMinimum(trace[n].criticalSize, size)
                  \/ ~NotCrossed(split.relCutoffTmp)

\* a put whose loop ran until relCutoffTmp crossed 0.5 and whose critical
\* segment grew on the way
C18_Witness ==
    /\ HasGroup
    /\ ~IsCall
    /\ \E split \in {LastSplit} :
          /\ split.passes > 2
          /\ ~NotCrossed(split.relCutoffTmp)
          /\ split.trace[split.passes].criticalSize > split.trace[1].criticalSize

\* a call whose loop stopped with enough points before 0.5
C18_WitnessCall ==
    /\ HasGroup
    /\ IsCall
    /\ \E split \in {LastSplit} :
          /\ split.passes > 2
          /\ NotCrossed(split.relCutoffTmp)
          /\ MeetsMinimum(split.trace[split.passes].criticalSize,
                          Len(LastGroup.xTmp))


\* every group split so far, as <<fixing index, position>>
SplitGroups == {fg \in (DOMAIN groups) \X (1..nAccBuckets) :
                  fg[2] \in DOMAIN groups[fg[1]]}
\* the function stored for the group g of fixing index f
FunctionOf(f, g) == proxy_.functions[f][g.from + 1].fn

\* C19: the split at the final cutoff puts every observation of the group
\* into exactly one segment, spot <= cutoff into xTmp1 and spot > cutoff into
\* xTmp2, and the function built for the group answers a query at the spot
\* of an observation from the segment that observation was put in.
C19_SegmentsPartition ==
    \A fg \in SplitGroups :
        LET g == groups[fg[1]][fg[2]]
        IN /\ Len(g.xTmp1) + Len(g.xTmp2) = Len(g.xTmp)
           /\ SameObservations(g.xTmp1 \o g.xTmp2, g.xTmp)
           /\ \A o \in Range(g.xTmp1) : o[1] * RelScale <= g.cutoff
           /\ \A o \in Range(g.xTmp2) : o[1] * RelScale > g.cutoff
           /\ g.outcome = "built" =>
                 /\ FunctionOf(fg[1], g).cutoff = <<g.cutoff, RelScale>>
                 /\ \A o \in Range(g.xTmp1) :
                       Segment(FunctionOf(fg[1], g), R(o[1])) = 1
                 /\ \A o \in Range(g.xTmp2) :
                       Segment(FunctionOf(fg[1], g), R(o[1])) = 2

\* a function built for a group with an observation on the cutoff itself
C19_Witness ==
    \E fg \in SplitGroups :
        LET g == groups[fg[1]][fg[2]]
        IN /\ g.outcome = "built"
           /\ g.xTmp2 # <<>>
           /\ \E o \in Range(g.xTmp1) : o[1] * RelScale = g.cutoff


LowerCutoffError ==
    [what |-> "lowerCutoff must be less or equal (call) or greater equal (put) than cutoff"]

\* C20: no function that calculate() builds from a group with more than one
\* spot is refused by the constructor for its lowerCutoff, call or put.
C20_LowerCutoffNeverCrosses ==
    (HasGroup /\ LastGroup.xTmp # <<>> /\ ~DegenerateRange(LastGroup)) =>
        thrown # LowerCutoffError


\* the spot at the percentile position of the group read for lowerCutoff
PercentileSpot(g) == R(g.xTmp[LowerCutoffIndex(Len(g.xTmp), IsCall) + 1][1])
\* the percentile spot lies on its side of the cutoff: at or below it for a
\* call, at or above it for a put
OnItsSide(g) ==
    IF IsCall THEN RLeq(PercentileSpot(g), <<g.cutoff, RelScale>>)
    ELSE RLeq(<<g.cutoff, RelScale>>, PercentileSpot(g))

\* C21: the function built for a group with more than one spot has as its
\* lowerCutoff the spot at the 5% position (call) or the 95% position (put)
\* of the group when that spot does not cross the cutoff, and the cutoff
\* only when it does.
C21_LowerCutoffIsPercentile ==
    \A fg \in SplitGroups :
        LET g == groups[fg[1]][fg[2]]
        IN (g.outcome = "built" /\ ~DegenerateRange(g)) =>
              REq(FunctionOf(fg[1], g).lowerCutoff,
                  IF OnItsSide(g) THEN PercentileSpot(g)
                  ELSE <<g.cutoff, RelScale>>)


\* coefficients of segment s (1 or 2) of the function f
CoefA(f, s) == IF s = 1 THEN f.a1 ELSE f.a2
CoefB(f, s) == IF s = 1 THEN f.b1 ELSE f.b2
CoefC(f, s) == IF s = 1 THEN f.c1 ELSE f.c2
\* the vertex -b/(2a) of segment s, a # 0
Vertex(f, s) == RDiv(0 - CoefB(f, s), 2 * CoefA(f, s))
\* the spot moved onto the ascending branch (call) or the descending branch
\* (put) of the parabola of segment s, and the parabola there
OnBranch(f, s, x) ==
    IF (f.type = Call) = (CoefA(f, s) < 0) THEN RMin(x, Vertex(f, s))
    ELSE RMax(x, Vertex(f, s))
BranchValue(f, s, x) == Poly(CoefA(f, s), CoefB(f, s), CoefC(f, s), OnBranch(f, s, x))
\* operator() answers the spot x by linear extrapolation
InLinearRegion(f, x) ==
    \/ /\ Segment(f, x) = 1 /\ f.type = Call
       /\ RLeq(x, f.lowerCutoff) /\ f.flatExtrapolationType1 = 1
    \/ /\ Segment(f, x) = 2 /\ f.type = Put
       /\ RLeq(f.lowerCutoff, x) /\ f.flatExtrapolationType2 = -1
\* operator() takes the maximum with the other segment at the cutoff
Stitched(f, x) ==
    (Segment(f, x) = 1 /\ f.type = Put) \/ (Segment(f, x) = 2 /\ f.type = Call)
\* operator() was called on a spot whose segment has a # 0
Evaluated == pf # Null /\ pfSpot # NoReal
EvaluatedQuadratic ==
    /\ Evaluated
    /\ ~Close(CoefA(pf, Segment(pf, pfSpot)), 0)
    /\ ~InLinearRegion(pf, pfSpot)

\* C22: outside the linear extrapolation region operator() evaluates the
\* quadratic of the selected segment (a # 0) at the spot clamped to the
\* vertex -b/(2a), on the side given by option type and sign of a; the
\* value is the one returned unless the other segment is stitched in, which
\* can only raise it.  The clamped quadratic of a segment is non-decreasing
\* in the spot for a call and non-increasing for a put.
C22_ClampedToVertex ==
    EvaluatedQuadratic =>
        LET s == Segment(pf, pfSpot)
        IN /\ IF Stitched(pf, pfSpot)
              THEN RLeq(BranchValue(pf, s, pfSpot), pfValue)
              ELSE REq(BranchValue(pf, s, pfSpot), pfValue)
           /\ \A x \in QuerySpots :
                 RLess(x, pfSpot) =>
                    IF pf.type = Call
                    THEN RLeq(BranchValue(pf, s, x), BranchValue(pf, s, pfSpot))
                    ELSE RLeq(BranchValue(pf, s, pfSpot), BranchValue(pf, s, x))

\* a value taken from the parabola at its vertex, for a spot beyond it
C22_Witness ==
    /\ EvaluatedQuadratic
    /\ ~Stitched(pf, pfSpot)
    /\ ~REq(OnBranch(pf, Segment(pf, pfSpot), pfSpot), pfSpot)
    /\ REq(pfValue, BranchValue(pf, Segment(pf, pfSpot), pfSpot))
    /\ ~REq(pfValue, Poly(CoefA(pf, Segment(pf, pfSpot)),
                          CoefB(pf, Segment(pf, pfSpot)),
                          CoefC(pf, Segment(pf, pfSpot)), pfSpot))


\* f(L) + f'(L) * (x - L) for the quadratic of segment s and L = lowerCutoff
Tangent(f, s, x) ==
    RAdd(Poly(CoefA(f, s), CoefB(f, s), CoefC(f, s), f.lowerCutoff),
         RMul(RAdd(RScale(2 * CoefA(f, s), f.lowerCutoff), R(CoefB(f, s))),
              RSub(x, f.lowerCutoff)))
EvaluatedLinear ==
    /\ Evaluated
    /\ InLinearRegion(pf, pfSpot)
    /\ ~Close(CoefA(pf, Segment(pf, pfSpot)), 0)

\* C23: in the linear extrapolation region operator() returns the tangent
\* of the segment's quadratic at lowerCutoff, and at lowerCutoff the tangent
\* has the value operator() returns just inside of it, which is the
\* quadratic at lowerCutoff clamped to the vertex.
C23_TangentJoins ==
    EvaluatedLinear =>
        LET s == Segment(pf, pfSpot)
        IN /\ REq(pfValue, Tangent(pf, s, pfSpot))
           /\ REq(Tangent(pf, s, pf.lowerCutoff),
                  BranchValue(pf, s, pf.lowerCutoff))

\* C23, first half alone: the value returned in the region is the tangent
C23_TangentReturned ==
    EvaluatedLinear => REq(pfValue, Tangent(pf, Segment(pf, pfSpot), pfSpot))


\* C24: a function with both quadratic coefficients away from 0 does not
\* reverse across the cutoff: for a call every value at a spot above the
\* cutoff is at least every value at a spot at or below it, for a put the
\* other way round.
C24_NoReversalAcrossCutoff ==
    (pf # Null /\ ~Close(pf.a1, 0) /\ ~Close(pf.a2, 0)) =>
        \A x1 \in QuerySpots, x2 \in QuerySpots :
            (Segment(pf, x1) = 1 /\ Segment(pf, x2) = 2) =>
                IF pf.type = Call
                THEN RLeq(Evaluate(pf, x1), Evaluate(pf, x2))
                ELSE RLeq(Evaluate(pf, x2), Evaluate(pf, x1))


\* C25: a function the constructor accepted has, for each segment whose a
\* is close to 0, a slope b > 0 if it is a call and b < 0 if it is a put.
C25_SlopeSignByType ==
    pf # Null =>
        \A s \in {1, 2} :
            Close(CoefA(pf, s), 0) =>
                IF pf.type = Call THEN CoefB(pf, s) > 0 ELSE CoefB(pf, s) < 0


\* the proxy object exists: calculate() is at the regression or has returned it
ProxyBuilt == pc = "regress" \/ results_.proxy # Null

ValidReads(n, isCall) ==
    /\ n > 0
    /\ LowerCutoffIndex(n, isCall) < n
    /\ CoreMinIndex(n) < n
    /\ CoreMaxIndex(n) < n

\* C27: every merged group calculate() reads lowerCutoff, coreRegionMin and
\* coreRegionMax from is non-empty and the three positions are valid indices
\* of it, a fixing index without any observation included.
C27_GroupReadsValid ==
    \A f \in DOMAIN groups :
        \A j \in DOMAIN groups[f] :
            ValidReads(Len(groups[f][j].xTmp), IsCall)

\* on a non-empty group the three reads are valid
C27_NonEmptyReadsValid ==
    \A f \in DOMAIN groups :
        \A j \in DOMAIN groups[f] :
            Len(groups[f][j].xTmp) > 0 =>
                ValidReads(Len(groups[f][j].xTmp), IsCall)


\* the last pass of the shrink loop on the last group
LastPass(split) == split.trace[Len(split.trace)]
\* the final vector of the critical segment
CriticalPoints(g) == IF IsCall THEN g.xTmp2 ELSE g.xTmp1

\* C28: when the last pass of the shrink loop left the cutoff where its
\* binary search looked, sizeA and sizeB are the sizes of the two final
\* vectors split with spot <= cutoff, points on the cutoff included, and a
\* critical segment the loop counted with minRegPoints points or more
\* passes the later check of that segment.
C28_SearchMatchesPartition ==
    HasGroup =>
        \A split \in {LastSplit} :
            ~LastPass(split).shrunk =>
                /\ LastGroup.sizeA = Len(LastGroup.xTmp1)
                /\ LastGroup.sizeB = Len(LastGroup.xTmp2)
                /\ LastPass(split).criticalSize >= minRegPoints =>
                       Len(CriticalPoints(LastGroup)) >= minRegPoints

\* a critical segment counted with minRegPoints points or more is not the
\* set the sanity check rejects
C28_AcceptedSegmentPasses ==
    HasGroup =>
        \A split \in {LastSplit} :
            (~LastPass(split).shrunk /\ ~DegenerateRange(LastGroup) /\
             LastPass(split).criticalSize >= minRegPoints) =>
                Len(CriticalPoints(LastGroup)) >= minRegPoints

\* without a point on the cutoff the search and the partition agree
OnCutoff(g) == {i \in DOMAIN g.xTmp : g.xTmp[i][1] * RelScale = g.cutoff}
C28_AgreeWithoutTies ==
    HasGroup =>
        \A split \in {LastSplit} :
            (~LastPass(split).shrunk /\ OnCutoff(LastGroup) = {}) =>
                /\ LastGroup.sizeA = Len(LastGroup.xTmp1)
                /\ LastGroup.sizeB = Len(LastGroup.xTmp2)


\* operator() was called on a spot whose segment is linear (a close to 0)
EvaluatedOnLine == Evaluated /\ Close(CoefA(pf, Segment(pf, pfSpot)), 0)
\* b * x + c of segment s
Line(f, s, x) == RAdd(RScale(CoefB(f, s), x), CoefC(f, s))

\* C29: on a segment whose quadratic coefficient is close to 0 operator()
\* works on members the constructor has assigned and returns b * x + c,
\* or at least that where the other segment is stitched in.
C29_LinearSegmentIsLine ==
    EvaluatedOnLine =>
        IF Stitched(pf, pfSpot)
        THEN RLeq(Line(pf, Segment(pf, pfSpot), pfSpot), pfValue)
        ELSE REq(Line(pf, Segment(pf, pfSpot), pfSpot), pfValue)


\* ascending by spot
SortedBySpot(s) == \A i \in 1..(Len(s) - 1) : s[i][1] <= s[i + 1][1]
\* calculate() has left the regression without an exception
LoopsEnded == pc = "idle" /\ fix \in Fixings /\ thrown = NoError /\ results_.proxy # Null
\* what the merge loops have done so far on the sorted buckets of fixing f
MergedInOrder(f) ==
    \A j \in DOMAIN groups[f] :
        LET g == groups[f][j]
        IN /\ ~g.outOfRange
           /\ g.from < g.to
           /\ g.to <= Len(data_[f])
           /\ SortedBySpot(g.xTmp)
           /\ g.xTmp # <<>> =>
                  /\ g.spotMin = g.xTmp[1][1]
                  /\ g.spotMax = g.xTmp[Len(g.xTmp)][1]
GroupsInOrder ==
    /\ \A f \in Fixings :
          (\A b \in DOMAIN data_[f] : SortedBySpot(data_[f][b])) => MergedInOrder(f)
    /\ LoopsEnded => k0 = Len(data_[fix])

\* a pass of the do-while leaves the buckets as they were and, when another
\* pass follows, has moved k0 on or gone to the next fixing index
PassAdvances ==
    pc = "regress" =>
        /\ data_' = data_
        /\ pc' = "regress" => (fix' = fix /\ k0 < k0') \/ (fix' = fix + 1 /\ k0' = 0)

\* C30: on sorted buckets the merge loops never read tmp[k0] with k0 at or
\* beyond the number of buckets; every group takes at least one bucket, so
\* that k0 grows with every pass and the loops end after at most as many
\* passes as there are buckets, with k0 the number of buckets when no
\* exception ended them before; every group is sorted ascending by spot
\* with spotMin and spotMax its first and last spot; the buckets are left
\* as they were.
C30_MergeLoopsEnd == []GroupsInOrder /\ [][PassAdvances]_vars

\* the loops ended after two groups or more, the first and the last made of
\* several buckets and holding more than one spot
C30_Witness ==
    /\ LoopsEnded
    /\ k0 = nAccBuckets
    /\ Len(groups[fix]) >= 2
    /\ Spans(groups[fix][1]) >= 2
    /\ Spans(groups[fix][Len(groups[fix])]) >= 2
    /\ groups[fix][1].spotMin < groups[fix][1].spotMax
    /\ Len(groups[fix][1].xTmp) > Len(data_[fix][1]) + 1


============================================================================
